---- MODULE Spec2Model ----
(***************************************************************************)
(* Model of the MOEX trade collectors (src/futures_collector.py and        *)
(* src/shares_collector.py): the instrument lister, the paginated          *)
(* get_trades_data loop with its TRADENO deduplication, save_data and the  *)
(* per-instrument orchestrator loop.                                       *)
(*                                                                         *)
(* Python values are modelled as follows.                                  *)
(*   - a trade row is a sequence <<TRADENO, payload>>; Python's trade[0]   *)
(*     is row[1] here.  The empty row <<>> is a row on which trade[0]      *)
(*     raises IndexError.                                                  *)
(*   - a trades response is [kind, meta, data]: kind "raise" when          *)
(*     session.get / raise_for_status / json() raises, "no_trades" when    *)
(*     the payload has no (or an empty) 'trades' object, "no_data" when    *)
(*     'trades' has no 'data', "page" when it has a 'data' list (possibly  *)
(*     empty); meta stands for every non-trade field of the payload.       *)
(*   - None is the record None below.                                      *)
(***************************************************************************)
EXTENDS Integers, Sequences, FiniteSets, TLC

(* ------------------------------ bounds -------------------------------- *)

\* page_size of get_trades_data.  The source sets 1000 (futures_collector.py
\* line 58, shares_collector.py line 57); the model scales it down so that
\* pages can be enumerated.  Every formula below is stated in terms of
\* page_size, never of its value.
page_size == 2

\* TRADENO values the upstream may serve.
MaxTradeNo == 3

\* Full pages (page_size rows) the upstream serves to one get_trades_data call.
MaxFullPages == 2

\* Rows in one listing response.
MaxRows == 2

\* Runs of the collector over one output directory (the scheduler starts the
\* collector again and again).
MaxRuns == 2

(* ------------------------------ values -------------------------------- *)

None == [none |-> TRUE]

Payloads == {"a", "b"}

Metas == {"m1", "m2"}

TradeNos == 1..MaxTradeNo

\* Well-formed trade rows, and the row with no field at all.
GoodRows == {<<t, p>> : t \in TradeNos, p \in Payloads}

EmptyRow == <<>>

RECURSIVE SeqsUpTo(_, _)
SeqsUpTo(S, n) ==
    IF n = 0 THEN {<<>>}
    ELSE LET shorter == SeqsUpTo(S, n - 1)
         IN  shorter \cup {Append(s, x) : s \in {q \in shorter : Len(q) = n - 1}, x \in S}

Raise == [kind |-> "raise", meta |-> "m1", data |-> <<>>]

\* The responses of the trades endpoint over the rows R and metadata M.
ResponsesOver(R, M) ==
    {Raise}
    \cup {[kind |-> k, meta |-> m, data |-> <<>>] : k \in {"no_trades", "no_data"}, m \in M}
    \cup {[kind |-> "page", meta |-> m, data |-> d] : m \in M, d \in SeqsUpTo(R, page_size)}

Responses == ResponsesOver(GoodRows \cup {EmptyRow}, Metas)

\* The responses a whole run is checked over: two TRADENOs, one payload, one
\* metadata value (FetchSpec checks get_trades_data over all of Responses).
RunResponses == ResponsesOver({<<1, "a">>, <<2, "a">>, EmptyRow}, {"m1"})

\* Rows of a listing response: no field, one field (SECID only), two fields,
\* three fields (SECID, name, MATDATE).
ListingRows == {<<>>, <<"A">>, <<"A", "nameA">>, <<"B", "nameB", "exp">>}

ListResponses ==
    {[kind |-> "raise", rows |-> <<>>]}
    \cup {[kind |-> "rows", rows |-> r] : r \in SeqsUpTo(ListingRows, MaxRows)}

Kinds == {"futures", "shares"}

\* The instants datetime.now() may return, as [date, hour, minute].
Clock ==
    {[date |-> 1, hour |-> 18, minute |-> 40], [date |-> 1, hour |-> 19, minute |-> 0]}

Minutes(t) == (t.date * 24 + t.hour) * 60 + t.minute

\* The instants of repeated runs: before 19:00, at 19:00, late in the evening
\* of the same date, and on the next date.
DayClock ==
    Clock \cup {[date |-> 1, hour |-> 23, minute |-> 10],
                [date |-> 2, hour |-> 18, minute |-> 40]}

\* What the filesystem does to one save_data call.
FsOutcomes == {"ok", "makedirs_raises", "open_raises", "dump_raises"}

\* The content of a file that open(filename, 'w') emptied and json.dump did
\* not finish.
Truncated == [truncated |-> TRUE]

(* ------------------------------ state --------------------------------- *)

VARIABLES
    kind,          \* which collector runs: "futures" or "shares"
    pc,            \* position of the run
    instruments,   \* collect_*_data: the list the lister returned (futures / shares)
    listing,       \* history: the listing response the lister received
    i,             \* collect_*_data: index of the instrument being processed
    files,         \* the output directory: filename -> content
    written,       \* history: filename -> how often and by which calls it was opened
    runs,          \* history: runs of the collector started so far
    now,           \* the last value datetime.now() returned
    log,           \* errors and warnings logged in the current phase of the run
    nfetch,        \* history: calls of get_trades_data in this run
    npersist,      \* history: calls of save_data in this run
    nsleep,        \* history: calls of time.sleep in this run
    nfailed,       \* history: calls of get_trades_data in this run that caught an exception
    persisted,     \* history: calls of save_data for the current instrument
    saved,         \* history: the data passed to that call
    first_meta,    \* history: the metadata of the first merged page of this call
    all_data,      \* get_trades_data: the merged result, None before the first page
    start,         \* get_trades_data: the offset of the next request
    seen_tradeno,  \* get_trades_data: the TRADENOs seen in this call
    data,          \* the caller's copy of the value get_trades_data returned
    requests,      \* history: the offsets requested in this call, in order
    sizes,         \* history: the raw row counts of the pages merged in this call
    stop_reason,   \* history: why the loop of this call ended ("" while it runs)
    expected,      \* history: first occurrences of the rows of the merged pages
    appeared       \* history: the TRADENOs of the rows of the merged pages

fetch_vars == <<all_data, start, seen_tradeno, data, requests, sizes, stop_reason,
                expected, appeared, first_meta>>

run_vars == <<kind, instruments, listing, i, files, written, runs, now, nfetch, npersist,
              nsleep, persisted, saved>>

vars == <<pc, log, nfailed, fetch_vars, run_vars>>

(* --------------------------- get_trades_data --------------------------- *)

\* Faulty variant of NoTradeData: an empty 'data' list counts as a page.
NoTradeData_AcceptsEmptyList(resp) == resp.kind \in {"no_trades", "no_data"}

\* `not trades or not trades.get('data')`
NoTradeData(resp) ==
    \/ resp.kind \in {"no_trades", "no_data"}
    \/ Len(resp.data) = 0

\* Faulty variant of IsNew: the membership test is lost, every row counts as new.
IsNew_Always(tradeno, seen) == TRUE

\* `tradeno not in seen_tradeno`
IsNew(tradeno, seen) == tradeno \notin seen

\* The loop over trades['data']: trade[0] raises on a row without fields;
\* a row whose TRADENO is new is recorded in seen and appended to unique.
RECURSIVE DedupLoop(_, _, _, _)
DedupLoop(page, k, seen, unique) ==
    IF k > Len(page) THEN [raised |-> FALSE, seen |-> seen, unique |-> unique]
    ELSE IF Len(page[k]) = 0 THEN [raised |-> TRUE, seen |-> seen, unique |-> unique]
    ELSE LET tradeno == page[k][1]
         IN  IF IsNew(tradeno, seen)
             THEN DedupLoop(page, k + 1, seen \cup {tradeno}, Append(unique, page[k]))
             ELSE DedupLoop(page, k + 1, seen, unique)

\* Faulty variant of Merge: every merged page brings its own metadata.
Merge_TakesLatestMeta(acc, resp, unique) ==
    IF acc = None
    THEN [meta |-> resp.meta, trades |-> unique]
    ELSE [meta |-> resp.meta, trades |-> acc.trades \o unique]

\* all_data after the page is merged: the first page's payload with its
\* trades replaced by unique_trades, later pages extend the list.
Merge(acc, resp, unique) ==
    IF acc = None
    THEN [meta |-> resp.meta, trades |-> unique]
    ELSE [acc EXCEPT !.trades = acc.trades \o unique]

\* Faulty variant of TradesDataAfterMerge: the stop test reads the
\* deduplicated rows of every page.
TradesDataAfterMerge_Unique(acc, resp, unique) == unique

\* What trades['data'] denotes after the merge.  On the first page all_data
\* is the payload object itself, so the assignment
\* all_data['trades']['data'] = unique_trades also rebinds trades['data'];
\* on later pages trades is the new payload's object and is left alone.
TradesDataAfterMerge(acc, resp, unique) ==
    IF acc = None THEN unique ELSE resp.data

\* `len(trades['data']) < page_size`: the loop breaks.
LastPage(trades_data) == Len(trades_data) < page_size

\* The upstream serves at most MaxFullPages full pages to one call.
Served(resp) ==
    (resp.kind = "page" /\ Len(resp.data) >= page_size)
        => Cardinality({k \in 1..Len(sizes) : sizes[k] >= page_size}) < MaxFullPages

\* For the history variables: the TRADENOs of rows, and the rows of s whose
\* TRADENO occurs at no earlier position of s, in order.
Ids(rows) == {rows[k][1] : k \in 1..Len(rows)}

RECURSIVE FirstOccurrences(_)
FirstOccurrences(s) ==
    IF s = <<>> THEN <<>>
    ELSE LET n == Len(s)
             before == FirstOccurrences(SubSeq(s, 1, n - 1))
         IN  IF \E j \in 1..(n - 1) : s[j][1] = s[n][1]
             THEN before
             ELSE Append(before, s[n])

\* Faulty variant of EnterGetTrades: the set of seen TRADENOs belongs to the
\* collector and outlives the call.
EnterGetTrades_KeepsSeen ==
    /\ all_data' = None
    /\ start' = 0
    /\ UNCHANGED seen_tradeno
    /\ requests' = <<>>
    /\ sizes' = <<>>
    /\ stop_reason' = ""
    /\ expected' = <<>>
    /\ appeared' = {}
    /\ first_meta' = ""

\* Entry of get_trades_data: its locals.
EnterGetTrades ==
    /\ all_data' = None
    /\ start' = 0
    /\ seen_tradeno' = {}
    /\ requests' = <<>>
    /\ sizes' = <<>>
    /\ stop_reason' = ""
    /\ expected' = <<>>
    /\ appeared' = {}
    /\ first_meta' = ""

\* Faulty variant of Return: the except clause gives up what was accumulated.
Return_DropsOnError(result, why) ==
    /\ pc' = "fetched"
    /\ data' = IF why \in {"raise", "processing"} THEN None ELSE result
    /\ stop_reason' = why
    /\ log' = IF why \in {"raise", "processing"} THEN log \cup {"trades_error"} ELSE log
    /\ nfailed' = IF why \in {"raise", "processing"} THEN nfailed + 1 ELSE nfailed
    /\ UNCHANGED start

\* Faulty variant of Return: no except clause, the exception leaves get_trades_data
\* and the run.
Return_Propagates(result, why) ==
    /\ pc' = IF why \in {"raise", "processing"} THEN "crashed" ELSE "fetched"
    /\ data' = IF why \in {"raise", "processing"} THEN data ELSE result
    /\ stop_reason' = why
    /\ nfailed' = IF why \in {"raise", "processing"} THEN nfailed + 1 ELSE nfailed
    /\ UNCHANGED <<start, log>>

\* The loop ends.  An exception is caught by the except clause, logged, and
\* ends the loop like a break; get_trades_data then returns all_data.
Return(result, why) ==
    /\ pc' = "fetched"
    /\ data' = result
    /\ stop_reason' = why
    /\ log' = IF why \in {"raise", "processing"} THEN log \cup {"trades_error"} ELSE log
    /\ nfailed' = IF why \in {"raise", "processing"} THEN nfailed + 1 ELSE nfailed
    /\ UNCHANGED start

\* One iteration of the while loop: one request and the processing of its
\* response.
FetchPage(resp) ==
    /\ pc = "fetching"
    /\ Served(resp)
    /\ requests' = Append(requests, start)
    /\ UNCHANGED run_vars
    /\ IF resp.kind = "raise"
       THEN /\ Return(all_data, "raise")
            /\ UNCHANGED <<all_data, seen_tradeno, sizes, expected, appeared, first_meta>>
       ELSE IF NoTradeData(resp)
       THEN /\ Return(all_data, "empty")
            /\ UNCHANGED <<all_data, seen_tradeno, sizes, expected, appeared, first_meta>>
       ELSE LET r == DedupLoop(resp.data, 1, seen_tradeno, <<>>)
                merged == Merge(all_data, resp, r.unique)
            IN  /\ seen_tradeno' = r.seen
                /\ IF r.raised
                   THEN /\ Return(all_data, "processing")
                        /\ UNCHANGED <<all_data, sizes, expected, appeared, first_meta>>
                   ELSE /\ all_data' = merged
                        /\ sizes' = Append(sizes, Len(resp.data))
                        /\ expected' = FirstOccurrences(expected \o resp.data)
                        /\ appeared' = appeared \cup Ids(resp.data)
                        /\ first_meta' = IF sizes = <<>> THEN resp.meta ELSE first_meta
                        /\ IF LastPage(TradesDataAfterMerge(all_data, resp, r.unique))
                           THEN Return(merged, "short")
                           ELSE /\ start' = start + page_size
                                /\ UNCHANGED <<pc, data, stop_reason, log, nfailed>>

(* ------------------------------ listers -------------------------------- *)

\* The dict built from one row.  item[1] (Python) is read for every row the
\* filter lets through: a row with fewer than two fields raises IndexError.
RowRaises(item) == Len(item) < 2

ShareOf(item) == [ticker |-> item[1], name |-> item[2]]

FutureOf(item) ==
    [ticker |-> item[1], name |-> item[2],
     expiration |-> IF Len(item) > 2 THEN item[3] ELSE "None"]

\* The filters of the two list comprehensions.
SharesFilter(item) == Len(item) >= 2

FuturesFilter(item) == Len(item) >= 1

\* [{...} for item in data['securities']['data'] if len(item) >= 2], or the
\* exception it raises.
RECURSIVE SharesComprehension(_, _)
SharesComprehension(rows, k) ==
    IF k > Len(rows) THEN [raised |-> FALSE, list |-> <<>>]
    ELSE IF ~SharesFilter(rows[k]) THEN SharesComprehension(rows, k + 1)
    ELSE IF RowRaises(rows[k]) THEN [raised |-> TRUE, list |-> <<>>]
    ELSE LET rest == SharesComprehension(rows, k + 1)
         IN  [raised |-> rest.raised,
              list |-> IF rest.raised THEN <<>> ELSE <<ShareOf(rows[k])>> \o rest.list]

\* [{...} for item in data['securities']['data'] if len(item) >= 1], or the
\* exception it raises.
RECURSIVE FuturesComprehension(_, _)
FuturesComprehension(rows, k) ==
    IF k > Len(rows) THEN [raised |-> FALSE, list |-> <<>>]
    ELSE IF ~FuturesFilter(rows[k]) THEN FuturesComprehension(rows, k + 1)
    ELSE IF RowRaises(rows[k]) THEN [raised |-> TRUE, list |-> <<>>]
    ELSE LET rest == FuturesComprehension(rows, k + 1)
         IN  [raised |-> rest.raised,
              list |-> IF rest.raised THEN <<>> ELSE <<FutureOf(rows[k])>> \o rest.list]

\* get_shares_list / get_futures_list: the list returned and whether the
\* except clause ran (which logs the error and returns []).
get_shares_list(resp) ==
    IF resp.kind = "raise" THEN [raised |-> TRUE, list |-> <<>>]
    ELSE SharesComprehension(resp.rows, 1)

get_futures_list(resp) ==
    IF resp.kind = "raise" THEN [raised |-> TRUE, list |-> <<>>]
    ELSE FuturesComprehension(resp.rows, 1)

(* ------------------------------ save_data ------------------------------ *)

\* now.strftime('%Y-%m-%d') and now.strftime('%H-%M')
date_str(t) == <<"date", t.date>>

time_str(t) == <<"time", t.hour, t.minute>>

\* Faulty variant of session: 19:00 to 19:59 still counts as the day session.
session_LateBoundary(t) == IF t.hour <= 19 THEN "day" ELSE "evening"

\* The session tag of the futures file name.
session(t) == IF t.hour < 19 THEN "day" ELSE "evening"

\* Faulty variant of futures_filename: the HH-MM part is the same for every
\* save.
futures_filename_NoTime(ticker, data_type, t) ==
    <<ticker, data_type, date_str(t), session(t), <<"time", 0, 0>> >>

\* The file name, as the tuple of the parts the f-string joins with "_".
futures_filename(ticker, data_type, t) ==
    <<ticker, data_type, date_str(t), session(t), time_str(t)>>

shares_filename(ticker, data_type, t) == <<ticker, data_type, date_str(t)>>

filename(ticker, data_type, t) ==
    IF kind = "futures" THEN futures_filename(ticker, data_type, t)
    ELSE shares_filename(ticker, data_type, t)

\* Faulty variant of Write: a file that exists is left as it is.
Write_KeepsExisting(fs, name, content) ==
    [n \in DOMAIN fs \cup {name} |-> IF n \in DOMAIN fs THEN fs[n] ELSE content]

\* open(filename, 'w') and what is written through it: the file is created
\* or replaced.
Write(fs, name, content) ==
    [n \in DOMAIN fs \cup {name} |-> IF n = name THEN content ELSE fs[n]]

\* The record of the calls that opened a file for writing, after one more.
Opened(w, name, ticker, t, d) ==
    LET call == [ticker |-> ticker, t |-> t, d |-> d]
    IN  [n \in DOMAIN w \cup {name} |->
            IF n # name THEN w[n]
            ELSE IF name \in DOMAIN w
                 THEN [count |-> w[name].count + 1, calls |-> w[name].calls \cup {call}]
                 ELSE [count |-> 1, calls |-> {call}]]

\* save_data(d, ticker, 'trades') when the filesystem does fs and the clock
\* reads t.  os.makedirs stands before the try block: what it raises leaves
\* save_data.  open(filename, 'w') and json.dump stand inside it: what they
\* raise is logged.  A json.dump that raises leaves the file truncated.
save_data(d, ticker, fs, t) ==
    /\ now' = t
    /\ UNCHANGED nfailed
    /\ npersist' = npersist + 1
    /\ persisted' = persisted + 1
    /\ saved' = d
    /\ IF fs = "makedirs_raises"
       THEN /\ pc' = "crashed"
            /\ UNCHANGED <<files, written, log>>
       ELSE /\ pc' = "sleep"
            /\ files' = CASE fs = "ok" -> Write(files, filename(ticker, "trades", t), d)
                          [] fs = "dump_raises" ->
                                 Write(files, filename(ticker, "trades", t), Truncated)
                          [] OTHER -> files
            /\ written' = IF fs \in {"ok", "dump_raises"}
                          THEN Opened(written, filename(ticker, "trades", t), ticker, t, d)
                          ELSE written
            /\ log' = IF fs = "ok" THEN log ELSE log \cup {"save_error"}

(* ---------------------------- orchestrator ----------------------------- *)

\* Faulty variant of ListIsEmpty: the check of the list is lost.
ListIsEmpty_Never(l) == FALSE

\* `if not futures:`
ListIsEmpty(l) == Len(l) = 0

\* Faulty variant of Truthy: the result is saved without the `if data:` test.
Truthy_Always(d) == TRUE

\* `if data:`, for data either None or the payload dict of a first page
\* (which holds the key 'trades', so is not empty).
Truthy(d) == d # None

\* The head of the for loop for instrument number n: the call of
\* get_trades_data.
EnterInstrument(n) ==
    /\ i' = n
    /\ pc' = "fetching"
    /\ nfetch' = nfetch + 1
    /\ persisted' = 0
    /\ saved' = None
    /\ data' = None
    /\ log' = {}
    /\ UNCHANGED nfailed
    /\ EnterGetTrades

\* The end of the for loop: the closing log line.
Finish ==
    /\ pc' = "done"
    /\ UNCHANGED <<i, nfetch, nfailed, persisted, saved, log, fetch_vars>>

\* collect_*_data calls its lister.
ListInstruments(resp) ==
    /\ pc = "start"
    /\ LET r == IF kind = "futures" THEN get_futures_list(resp) ELSE get_shares_list(resp)
       IN  /\ instruments' = r.list
           /\ log' = IF r.raised THEN log \cup {"list_error"} ELSE log
    /\ listing' = resp
    /\ pc' = "listed"
    /\ UNCHANGED <<kind, i, files, written, runs, now, nfetch, npersist, nsleep, nfailed,
                   persisted, saved, fetch_vars>>

\* The check of the list, and the first turn of the for loop.  The response
\* the lister parsed is out of scope from here on.
CheckList ==
    /\ pc = "listed"
    /\ listing' = [kind |-> "rows", rows |-> <<>>]
    /\ UNCHANGED <<kind, instruments, files, written, runs, now, npersist, nsleep>>
    /\ IF ListIsEmpty(instruments)
       THEN /\ pc' = "done"
            /\ log' = log \cup {"no_list"}
            /\ UNCHANGED <<i, nfetch, nfailed, persisted, saved, fetch_vars>>
       ELSE IF Len(instruments) >= 1 THEN EnterInstrument(1) ELSE Finish

\* `if data: save_data(...) else: warning`.  fs and t are what the filesystem
\* and the clock give to save_data; they are not read when there is no data.
HandleResult(fs, t) ==
    /\ pc = "fetched"
    /\ UNCHANGED <<kind, instruments, listing, i, runs, nfetch, nsleep, fetch_vars>>
    /\ IF Truthy(data)
       THEN /\ Minutes(t) >= Minutes(now)
            /\ save_data(data, instruments[i].ticker, fs, t)
       ELSE /\ fs = "ok" /\ t = now
            /\ pc' = "sleep"
            /\ log' = log \cup {"no_data"}
            /\ UNCHANGED <<files, written, now, npersist, nfailed, persisted, saved>>

\* time.sleep(1), then the next turn of the for loop or its end.
Sleep ==
    /\ pc = "sleep"
    /\ nsleep' = nsleep + 1
    /\ UNCHANGED <<kind, instruments, listing, files, written, runs, now, npersist>>
    /\ IF i < Len(instruments)
       THEN EnterInstrument(i + 1)
       ELSE Finish

(* ------------------------------ the run -------------------------------- *)

Init ==
    /\ kind \in Kinds
    /\ pc = "start"
    /\ instruments = <<>>
    /\ listing = [kind |-> "rows", rows |-> <<>>]
    /\ i = 0
    /\ files = <<>>
    /\ written = <<>>
    /\ runs = 1
    /\ now \in Clock
    /\ log = {}
    /\ nfetch = 0
    /\ npersist = 0
    /\ nsleep = 0
    /\ nfailed = 0
    /\ persisted = 0
    /\ saved = None
    /\ first_meta = ""
    /\ all_data = None
    /\ start = 0
    /\ seen_tradeno = {}
    /\ data = None
    /\ requests = <<>>
    /\ sizes = <<>>
    /\ stop_reason = ""
    /\ expected = <<>>
    /\ appeared = {}

Next ==
    \/ \E resp \in ListResponses : ListInstruments(resp)
    \/ CheckList
    \/ \E resp \in RunResponses : FetchPage(resp)
    \/ \E fs \in FsOutcomes, t \in Clock : HandleResult(fs, t)
    \/ Sleep

Spec == Init /\ [][Next]_vars

\* The run under the scheduling of a sequential program: a step that can be
\* taken is taken.  Every request returns, with one of the responses of Next;
\* Served bounds the full pages the upstream serves to one call.
LiveSpec == Spec /\ WF_vars(Next)

(* --------------------------- repeated runs ----------------------------- *)

\* Listings and trades of the repeated runs: one instrument per run, at most
\* one page of one trade per instrument.
RerunListResponses ==
    {[kind |-> "rows", rows |-> <<r>>] : r \in {<<"A", "nameA">>, <<"B", "nameB", "exp">>}}

RerunResponses ==
    {Raise} \cup {[kind |-> "page", meta |-> "m1", data |-> <<r>>] : r \in {<<1, "a">>, <<2, "a">>}}

\* The collector is started again (`if __name__ == "__main__": main()`) after
\* a run has ended: a new process, the same output directory, a clock that
\* has not gone back.
Rerun ==
    /\ pc \in {"done", "crashed"}
    /\ runs < MaxRuns
    /\ runs' = runs + 1
    /\ pc' = "start"
    /\ instruments' = <<>>
    /\ listing' = [kind |-> "rows", rows |-> <<>>]
    /\ i' = 0
    /\ log' = {}
    /\ nfetch' = 0
    /\ npersist' = 0
    /\ nsleep' = 0
    /\ nfailed' = 0
    /\ persisted' = 0
    /\ saved' = None
    /\ data' = None
    /\ all_data' = None
    /\ start' = 0
    /\ seen_tradeno' = {}
    /\ requests' = <<>>
    /\ sizes' = <<>>
    /\ stop_reason' = ""
    /\ expected' = <<>>
    /\ appeared' = {}
    /\ first_meta' = ""
    /\ UNCHANGED <<kind, files, written, now>>

RerunNext ==
    \/ \E resp \in RerunListResponses : ListInstruments(resp)
    \/ CheckList
    \/ \E resp \in RerunResponses : FetchPage(resp)
    \/ \E fs \in FsOutcomes, t \in DayClock : HandleResult(fs, t)
    \/ Sleep
    \/ Rerun

RerunSpec == Init /\ [][RerunNext]_vars

(* ------------------- one call of get_trades_data ----------------------- *)

\* The state in which collect_*_data has just called get_trades_data for the
\* first instrument of its list.  get_trades_data is the same text in both
\* collectors but for the URL, and reads neither kind nor the clock.
FetchInit ==
    /\ kind = "futures"
    /\ pc = "fetching"
    /\ instruments = <<[ticker |-> "A", name |-> "nameA"]>>
    /\ listing = [kind |-> "rows", rows |-> <<>>]
    /\ i = 1
    /\ files = <<>>
    /\ written = <<>>
    /\ runs = 1
    /\ now = [date |-> 1, hour |-> 18, minute |-> 40]
    /\ log = {}
    /\ nfetch = 1
    /\ npersist = 0
    /\ nsleep = 0
    /\ nfailed = 0
    /\ persisted = 0
    /\ saved = None
    /\ first_meta = ""
    /\ all_data = None
    /\ start = 0
    /\ seen_tradeno = {}
    /\ data = None
    /\ requests = <<>>
    /\ sizes = <<>>
    /\ stop_reason = ""
    /\ expected = <<>>
    /\ appeared = {}

FetchNext == \E resp \in Responses : FetchPage(resp)

FetchSpec == FetchInit /\ [][FetchNext]_vars

(* ======================= get_trades_data: claims ======================= *)

RECURSIVE Sum(_)
Sum(s) == IF s = <<>> THEN 0 ELSE s[1] + Sum(Tail(s))

HasNoDuplicate(rows) ==
    \A j, k \in 1..Len(rows) : j # k => rows[j][1] # rows[k][1]

Errors == {"raise", "processing"}

\* The value get_trades_data is to return once at least one page was merged:
\* the first page's metadata with the first occurrences of all merged rows.
MergedResult == [meta |-> first_meta, trades |-> expected]

\* C1.  Dedup invariant: the merged list holds each TRADENO that appeared in
\* a merged page exactly once, the row kept for it is its first occurrence,
\* the rows stand in first-seen order, and that list is what is returned.
\* (expected is kept as FirstOccurrences(expected \o page); as
\* FirstOccurrences(FirstOccurrences(x) \o y) = FirstOccurrences(x \o y), it
\* is FirstOccurrences of all merged pages joined.)
C1_DedupInvariant ==
    /\ all_data # None =>
         /\ all_data.trades = expected
         /\ HasNoDuplicate(all_data.trades)
         /\ Ids(all_data.trades) = appeared
         /\ Len(all_data.trades) = Cardinality(appeared)
    /\ all_data = None => appeared = {}
    /\ pc = "fetched" => data = all_data

\* A call returned after three pages; the later pages brought new rows and
\* rows whose TRADENO was seen before.
C1_Witness ==
    /\ pc = "fetched"
    /\ Len(sizes) = 3
    /\ data # None
    /\ Len(data.trades) > page_size
    /\ Len(data.trades) < Sum(sizes)

\* C2.  The loop stops after a merged page if and only if the page's raw
\* row count is below page_size, for every page, the first included.
C2_StopOnRawCount ==
    /\ stop_reason = "short" => sizes[Len(sizes)] < page_size
    /\ (stop_reason # "short" /\ sizes # <<>>) => sizes[Len(sizes)] >= page_size

\* C3.  The k-th request uses offset page_size * (k - 1); no request follows
\* a page of fewer than page_size rows; and a call that was served only full
\* pages so far has not stopped (so that pages of sizes
\* [page_size, page_size, short] get exactly three requests).
C3_OffsetsAndShortStop ==
    /\ \A k \in 1..Len(requests) : requests[k] = page_size * (k - 1)
    /\ \A k \in 1..Len(sizes) : sizes[k] < page_size => Len(requests) = k
    /\ ~ /\ pc = "fetched"
         /\ Len(requests) = Len(sizes)
         /\ \A k \in 1..Len(sizes) : sizes[k] >= page_size

\* C4.  When every page with data is a full page (and no request fails), the
\* call ends only on a response without trade data, which comes one request
\* after the last full page and adds nothing: the result is the merge of
\* the full pages.
C4_ExactMultiple ==
    (/\ pc = "fetched"
     /\ stop_reason \notin Errors
     /\ sizes # <<>>
     /\ \A k \in 1..Len(sizes) : sizes[k] = page_size)
    => /\ stop_reason = "empty"
       /\ Len(requests) = Len(sizes) + 1
       /\ requests[Len(requests)] = page_size * Len(sizes)
       /\ data = MergedResult

\* C5.  When the request or the processing of page k raises, the call
\* returns (no exception leaves it), page k is the last page requested, and
\* the value returned is the merge of pages 1..k-1, None for k = 1.
C5_PartialFailure ==
    /\ pc # "crashed"
    /\ stop_reason \in Errors =>
         /\ pc = "fetched"
         /\ Len(requests) = Len(sizes) + 1
         /\ data = IF Len(requests) = 1 THEN None ELSE MergedResult

\* The second request raised after a first page was merged.
C5_Witness ==
    /\ pc = "fetched"
    /\ stop_reason = "raise"
    /\ Len(requests) = 2
    /\ data # None
    /\ Len(data.trades) = page_size

\* C17.  The result holds the non-trade fields of the first merged page and
\* nothing else beside the trade list, after every page and when it is
\* returned: merging a later page, whatever metadata it carries, leaves them
\* as they are.
C17_MetadataFrame ==
    /\ all_data # None =>
          /\ DOMAIN all_data = {"meta", "trades"}
          /\ all_data.meta = first_meta
    /\ (pc = "fetched" /\ data # None) => data.meta = first_meta

\* A call whose first page carried the metadata m2 returned after a later
\* page added rows.
C17_Witness ==
    /\ pc = "fetched"
    /\ Len(sizes) >= 2
    /\ data # None
    /\ data.meta = "m2"
    /\ Len(data.trades) > sizes[1]

(* ============================ the run: claims ========================== *)

\* C6.  When the lister returns an empty list (a failed listing request
\* included) the run ends without any call of get_trades_data, save_data or
\* time.sleep, and with the error logged.
C6_EmptyListShortCircuit ==
    (pc # "start" /\ instruments = <<>>) =>
        /\ pc \in {"listed", "done"}
        /\ nfetch = 0 /\ npersist = 0 /\ nsleep = 0
        /\ requests = <<>>
        /\ files = <<>>
        /\ pc = "done" => "no_list" \in log

\* The listing request failed and the run is over.
C6_Witness ==
    /\ pc = "done"
    /\ instruments = <<>>
    /\ log = {"list_error", "no_list"}

C8_PersistFailuresSwallowed == pc # "crashed"

\* C9.  For each instrument save_data is called exactly once, with the merged
\* result, when at least one page was merged before the fetch ended, and not
\* at all when none was.
C9_PersistIffData ==
    /\ persisted <= 1
    /\ pc \in {"fetching", "fetched"} => persisted = 0
    /\ (pc \in {"sleep", "crashed"} \/ (pc = "done" /\ instruments # <<>>)) =>
          /\ persisted = IF sizes # <<>> THEN 1 ELSE 0
          /\ persisted = 1 => saved = MergedResult

\* A fetch that failed on its second page was saved.
C9_Witness ==
    /\ pc = "sleep"
    /\ persisted = 1
    /\ stop_reason = "raise"
    /\ Len(requests) = 2

\* The save of the current instrument has just completed.
SaveCompleted == pc = "sleep" /\ persisted = 1 /\ "save_error" \notin log

HasTickerAndName(item) == Len(item) >= 2

\* C10.  The lister returns one instrument for every row of at least two
\* fields, in the order of the response, and drops the other rows, in both
\* collectors.
C10_RowFiltering ==
    (pc = "listed" /\ listing.kind = "rows") =>
        LET kept == SelectSeq(listing.rows, HasTickerAndName)
        IN  instruments =
              [k \in 1..Len(kept) |->
                 IF kind = "futures" THEN FutureOf(kept[k]) ELSE ShareOf(kept[k])]

\* C14.  seen_tradeno belongs to one call of get_trades_data: every call
\* starts with an empty set and no result, whatever the calls before it saw;
\* while its loop runs the set holds the TRADENOs of its own merged pages and
\* no other; what it returns is the merge of its own pages only (None when
\* none was merged).
C14_SeenScopedToCall ==
    /\ (pc = "fetching" /\ requests = <<>>) => (seen_tradeno = {} /\ all_data = None)
    /\ pc = "fetching" => seen_tradeno = appeared
    /\ pc = "fetched" => data = IF sizes = <<>> THEN None ELSE MergedResult

\* The second instrument's fetch returned a TRADENO that the first
\* instrument's saved file holds too.
C14_Witness ==
    /\ pc = "fetched"
    /\ i = 2
    /\ instruments[1].ticker # instruments[2].ticker
    /\ data # None
    /\ \E n \in DOMAIN files :
          /\ files[n] # Truncated
          /\ n[1] = instruments[1].ticker
          /\ Ids(files[n].trades) \cap Ids(data.trades) # {}

\* The run is over: the closing log line was written, or an exception left
\* the process.
RunEnded == pc \in {"done", "crashed"}

\* C15.  When every request returns and the upstream serves finitely many
\* full pages to a call, the run ends, and every call of get_trades_data
\* returns: a call is left only by its return, and no call is in progress
\* once the run has ended.  A full page that brings no new TRADENO does not
\* end the loop: the next request follows it.
C15_Termination ==
    /\ <>RunEnded
    /\ [][pc = "fetching" => pc' \in {"fetching", "fetched"}]_vars
    /\ [][(sizes' = Append(sizes, page_size) /\ expected' = expected)
             => (pc' = "fetching" /\ start' = start + page_size)]_vars

\* A run ended after a call that merged a full page made only of TRADENOs
\* seen before, and asked for the page after it.
C15_Witness ==
    /\ RunEnded
    /\ Len(sizes) = 2
    /\ sizes[2] = page_size
    /\ Len(expected) = page_size
    /\ Len(requests) = 3

\* C16.  Instruments are taken one at a time in list order, each fetched
\* once; the save of an instrument comes after its fetch has ended and
\* before the next instrument's first request; and one pause follows every
\* instrument taken, whatever became of it, so a run that is over has paused
\* as often as it has fetched.
C16_OrchestratorOrdering ==
    /\ pc \in {"fetching", "fetched", "sleep", "crashed"} =>
          /\ i \in 1..Len(instruments)
          /\ nfetch = i
          /\ nsleep = i - 1
          /\ npersist <= i
    /\ pc \in {"fetching", "fetched"} => (persisted = 0 /\ npersist <= i - 1)
    /\ (RunEnded /\ instruments # <<>>) => nsleep = nfetch

\* C18.  A result that is not None holds at least one trade, in
\* get_trades_data, in the orchestrator, in what is passed to save_data and
\* in every file written in full; and after every page processed without an
\* exception (and after a loop end that processed no further page) the
\* TRADENOs of the merged list are exactly the TRADENOs seen.
C18_NonEmptyResult ==
    /\ all_data # None => Len(all_data.trades) >= 1
    /\ data # None => Len(data.trades) >= 1
    /\ saved # None => Len(saved.trades) >= 1
    /\ \A n \in DOMAIN files : files[n] # Truncated => Len(files[n].trades) >= 1
    /\ stop_reason # "processing" =>
          seen_tradeno = IF all_data = None THEN {} ELSE Ids(all_data.trades)

\* The merge of two pages, the second of which repeated a TRADENO, was saved
\* in full.
C18_Witness ==
    /\ SaveCompleted
    /\ Len(sizes) = 2
    /\ Len(saved.trades) < Sum(sizes)
    /\ Cardinality(seen_tradeno) = Len(saved.trades)
    /\ \E n \in DOMAIN files : files[n] = saved

(* ========================= save_data: claims =========================== *)

\* The instants 18:40 and 23:10 of one date.
At(t, hour, minute) == t.hour = hour /\ t.minute = minute

\* C11.  The session tag of a futures file name is "day" exactly when the
\* hour of the save is below 19 and "evening" otherwise, so at 19:00 it is
\* "evening"; two saves of one ticker on one date at 18:40 and at 23:10 give
\* names that differ in the session tag and in the HH-MM part.
C11_SessionNaming ==
    kind = "futures" =>
        \A n1 \in DOMAIN written : \A c1 \in written[n1].calls :
            /\ n1[4] = IF c1.t.hour < 19 THEN "day" ELSE "evening"
            /\ c1.t.hour = 19 => n1[4] = "evening"
            /\ \A n2 \in DOMAIN written : \A c2 \in written[n2].calls :
                  (/\ c1.ticker = c2.ticker
                   /\ c1.t.date = c2.t.date
                   /\ At(c1.t, 18, 40)
                   /\ At(c2.t, 23, 10)) => (n1[4] # n2[4] /\ n1[5] # n2[5])

\* Two runs saved the same futures ticker at 18:40 and at 23:10 of one date.
C11_Witness ==
    /\ kind = "futures"
    /\ \E n1, n2 \in DOMAIN written :
          \E c1 \in written[n1].calls, c2 \in written[n2].calls :
              /\ c1.ticker = c2.ticker
              /\ c1.t.date = c2.t.date
              /\ At(c1.t, 18, 40)
              /\ At(c2.t, 23, 10)

\* C12.  A futures file is opened for writing a second time only by a save
\* of the same ticker that reads the same date, hour and minute as the save
\* that wrote it; saves of other tickers or in other minutes, of this run or
\* of a later one, write other files.
C12_RewrittenOnlyInSameMinute ==
    kind = "futures" =>
        \A n \in DOMAIN written : \A c1, c2 \in written[n].calls :
            c1.ticker = c2.ticker /\ c1.t = c2.t

\* Two runs saved the same futures ticker in different minutes: two files,
\* each written once.
C12_Witness ==
    /\ kind = "futures"
    /\ runs = 2
    /\ \E n1, n2 \in DOMAIN written :
          /\ n1 # n2
          /\ n1[1] = n2[1]
          /\ written[n1].count = 1
          /\ written[n2].count = 1
          /\ n1 \in DOMAIN files /\ n2 \in DOMAIN files

\* C12 as the specification words it: no futures save writes a file that an
\* earlier save wrote.
C12_NeverRewritten ==
    kind = "futures" => \A n \in DOMAIN written : written[n].count <= 1

\* C13.  The shares file name is a function of ticker, data kind and date:
\* saves of one ticker on one date, at whatever time and in whatever run,
\* open the same file, and after a save that completed the file holds the
\* data of that save, whatever an earlier save had written to it.
C13_IdempotentSharesFilename ==
    kind = "shares" =>
        /\ \A n1, n2 \in DOMAIN written :
              \A c1 \in written[n1].calls, c2 \in written[n2].calls :
                  (c1.ticker = c2.ticker /\ c1.t.date = c2.t.date) => n1 = n2
        /\ SaveCompleted =>
              LET name == shares_filename(instruments[i].ticker, "trades", now)
              IN  name \in DOMAIN files /\ files[name] = saved

\* A second run has just saved a shares ticker that an earlier save of the
\* same date, at another time and with other data, had written.
C13_Witness ==
    /\ kind = "shares"
    /\ SaveCompleted
    /\ LET name == shares_filename(instruments[i].ticker, "trades", now)
       IN  /\ name \in DOMAIN written
           /\ written[name].count = 2
           /\ \E c \in written[name].calls : c.d # saved /\ c.t # now
           /\ files[name] = saved

====
